---- MODULE Spec2Model ----
(***************************************************************************)
(* Model of the InstrumentKit HP drivers:                                  *)
(*   HpmlMultimeter  (instruments/generic_hpml/hpml_multimeter.py)         *)
(*   HP3458a         (instruments/hp/hp3458a.py)                           *)
(*   HP6652a         (instruments/hp/hp6652a.py)                           *)
(* The transport (sendcmd / query / read) is a recording double: every     *)
(* write and read of the current call is appended to a trace, and a small  *)
(* device model keeps the last argument written for each command keyword.  *)
(* Text is a sequence of one-character strings, so that formatting,        *)
(* splitting, int() and upper() are computed and not assumed.              *)
(***************************************************************************)
EXTENDS Integers, Sequences, FiniteSets, TLC

VARIABLES
    pc,          \* "new" before anything is constructed, "ready" with a multimeter
                 \* driver, "psu" with an HP6652a, "catalog" while only the
                 \* enumerations are exercised
    cls,         \* class of the constructed driver ("" before construction)
    terminator,  \* the instrument's line terminator attribute
    dev,         \* device registers: property -> argument text last written
    lastSet,     \* property -> name of the variant the last setter call sent
    trace,       \* transport events of the last call, in order
    call,        \* the last call: operation, argument, error, result
    ncalls,      \* number of calls made on the multimeter after construction
    enumIn,      \* catalog round trip: the input (a variant or a wire code)
    enumOut      \* catalog round trip: what encoding and decoding it produced

vars == <<pc, cls, terminator, dev, lastSet, trace, call, ncalls, enumIn, enumOut>>
drvVars == <<terminator, dev, lastSet, trace, call, ncalls>>
enumVars == <<enumIn, enumOut>>

----------------------------------------------------------------------------
(* Bounds of the model *)

\* calls made on one multimeter object after its construction
MaxCalls == 2
\* longest text handed to display_text is DisplayLimit + MaxExtra characters
MaxExtra == 2

----------------------------------------------------------------------------
(* Python values *)

\* One record shape for every Python value the drivers handle:
\*   t    type name ("NoneType", "int", "str", "float", "bool", "Quantity",
\*        or the name of an enumeration for one of its members)
\*   n    the number of an int / float / bool / Quantity magnitude
\*   name the member name of an enumeration member
\*   s    the characters of a str
\*   u    the unit of a Quantity
PyVal(t, n, name, s, u) == [t |-> t, n |-> n, name |-> name, s |-> s, u |-> u]
PyNone == PyVal("NoneType", 0, "", <<>>, "")
PyInt(n) == PyVal("int", n, "", <<>>, "")
PyStr(s) == PyVal("str", 0, "", s, "")
PyFloat(n) == PyVal("float", n, "", <<>>, "")
PyBool(b) == PyVal("bool", IF b THEN 1 ELSE 0, "", <<>>, "")
Member(e, name) == PyVal(e, 0, name, <<>>, "")

----------------------------------------------------------------------------
(* Text *)

Digits == <<"0", "1", "2", "3", "4", "5", "6", "7", "8", "9">>
IsDigit(c) == \E i \in 1..10 : Digits[i] = c
DigitVal(c) == (CHOOSE i \in 1..10 : Digits[i] = c) - 1
IsSpace(c) == c \in {" ", "\t", "\n", "\r"}

\* str(n) for an int n >= 0, as "{}".format(n) renders it
RECURSIVE IntToStr(_)
IntToStr(n) ==
    IF n < 10 THEN <<Digits[n + 1]>>
    ELSE IntToStr(n \div 10) \o <<Digits[(n % 10) + 1]>>

\* str.strip()
RECURSIVE LStrip(_)
LStrip(s) == IF s # <<>> /\ IsSpace(Head(s)) THEN LStrip(Tail(s)) ELSE s
RECURSIVE RStrip(_)
RStrip(s) ==
    IF s # <<>> /\ IsSpace(s[Len(s)]) THEN RStrip(SubSeq(s, 1, Len(s) - 1)) ELSE s
Strip(s) == LStrip(RStrip(s))

\* index of the first c in s, 0 when there is none
FirstIndex(s, c) ==
    LET hits == {i \in 1..Len(s) : s[i] = c}
    IN  IF hits = {} THEN 0 ELSE CHOOSE i \in hits : \A j \in hits : i <= j

\* s.split(c)[0]
SplitHead(s, c) ==
    LET i == FirstIndex(s, c) IN IF i = 0 THEN s ELSE SubSeq(s, 1, i - 1)

\* the rest of s after the first c (empty when there is no c)
SplitRest(s, c) ==
    LET i == FirstIndex(s, c) IN IF i = 0 THEN <<>> ELSE SubSeq(s, i + 1, Len(s))

RECURSIVE DigitsVal(_)
DigitsVal(s) ==
    IF s = <<>> THEN 0
    ELSE 10 * DigitsVal(SubSeq(s, 1, Len(s) - 1)) + DigitVal(s[Len(s)])

\* int(s): surrounding whitespace is ignored, the rest must be decimal digits
\* (no sign occurs in the replies of the model); anything else is a ValueError
IntOk(s) == LET t == Strip(s) IN t # <<>> /\ \A i \in 1..Len(t) : IsDigit(t[i])
IntOf(s) == DigitsVal(Strip(s))

----------------------------------------------------------------------------
(* Enumeration catalog of HpmlMultimeter *)

\* An enumeration is its entries <<name, value>> in source order.
Entry(name, value) == [name |-> name, value |-> value]

Mode ==
    << Entry("current_ac", PyInt(7)), Entry("current_dc", PyInt(6)),
       Entry("current_acdc", PyInt(8)),
       Entry("voltage_ac", PyInt(2)), Entry("voltage_dc", PyInt(1)),
       Entry("voltage_acdc", PyInt(3)),
       Entry("frequency", PyInt(9)), Entry("period", PyInt(10)),
       Entry("fourpt_resistance", PyInt(5)), Entry("resistance", PyInt(4)),
       Entry("direct_sampling_ac", PyInt(11)), Entry("direct_sampling_dc", PyInt(12)),
       Entry("sub_sampling_ac", PyInt(13)), Entry("sub_sampling_dc", PyInt(14)) >>

Format ==
    << Entry("ascii", PyInt(1)), Entry("sint", PyInt(2)), Entry("dint", PyInt(3)),
       Entry("sreal", PyInt(4)), Entry("dreal", PyInt(5)) >>

ToggableMode == << Entry("off", PyInt(0)), Entry("on", PyInt(1)) >>

\* TriggerMode with line given the code of level
TriggerModeSharedCode ==
    << Entry("auto", PyInt(1)), Entry("external", PyInt(2)), Entry("syn", PyInt(5)),
       Entry("single", PyInt(3)), Entry("hold", PyInt(4)),
       Entry("level", PyInt(7)), Entry("line", PyInt(7)) >>

TriggerMode ==
    << Entry("auto", PyInt(1)), Entry("external", PyInt(2)), Entry("syn", PyInt(5)),
       Entry("single", PyInt(3)), Entry("hold", PyInt(4)),
       Entry("level", PyInt(7)), Entry("line", PyInt(8)) >>

InputRange ==
    << Entry("minimum", PyStr(<<"M", "I", "N">>)),
       Entry("maximum", PyStr(<<"M", "A", "X">>)),
       Entry("default", PyStr(<<"D", "E", "F">>)),
       Entry("automatic", PyStr(<<"A", "U", "T", "O">>)) >>

EnumTypes == {"Mode", "Format", "ToggableMode", "TriggerMode", "InputRange"}

EnumTable(e) ==
    CASE e = "Mode" -> Mode
      [] e = "Format" -> Format
      [] e = "ToggableMode" -> ToggableMode
      [] e = "TriggerMode" -> TriggerMode
      [] e = "InputRange" -> InputRange

\* enum.Enum: a name whose value repeats an earlier entry's value is an alias
\* of that entry and no member of its own
IsCanonical(e, i) == \A j \in 1..(i - 1) : EnumTable(e)[j].value # EnumTable(e)[i].value
MemberSets ==
    [e \in EnumTypes |->
        {Member(e, EnumTable(e)[i].name) :
            i \in {k \in DOMAIN EnumTable(e) : IsCanonical(e, k)}}]
Members(e) == MemberSets[e]
\* every name the enumeration declares, aliases included
Variants(e) == {Member(e, EnumTable(e)[i].name) : i \in DOMAIN EnumTable(e)}
IsMember(x) == x.t \in EnumTypes

\* member.value
ValueOf(m) ==
    EnumTable(m.t)[CHOOSE i \in DOMAIN EnumTable(m.t) : EnumTable(m.t)[i].name = m.name].value

\* Enum(value): the first entry holding the value; ValueError when none does
HasValue(e, v) == \E i \in DOMAIN EnumTable(e) : EnumTable(e)[i].value = v
ByValue(e, v) ==
    Member(e, EnumTable(e)[CHOOSE i \in DOMAIN EnumTable(e) :
                              /\ EnumTable(e)[i].value = v
                              /\ IsCanonical(e, i)].name)

\* Enum(x) as the property layer calls it: a member of e is itself, a value
\* of e's table is its member, anything else is a ValueError
EnumCallOk(e, x) == IF IsMember(x) THEN x \in Members(e) ELSE HasValue(e, x)
EnumCall(e, x) == IF IsMember(x) THEN x ELSE ByValue(e, x)

\* "{}".format(x) for the wire values of the catalog
Str(x) == IF x.t = "str" THEN x.s ELSE IntToStr(x.n)

----------------------------------------------------------------------------
(* Unit table *)

\* UNITS with period mapped to the unit of frequency
UNITSPeriodInHertz ==
    [voltage_dc |-> "volt", voltage_ac |-> "volt",
     current_ac |-> "amp", current_dc |-> "amp",
     resistance |-> "ohm", fourpt_resistance |-> "ohm",
     frequency |-> "hertz", period |-> "hertz"]

UNITS ==
    [voltage_dc |-> "volt", voltage_ac |-> "volt",
     current_ac |-> "amp", current_dc |-> "amp",
     resistance |-> "ohm", fourpt_resistance |-> "ohm",
     frequency |-> "hertz", period |-> "second"]

\* value * unit
Quantity(value, unit) == PyVal("Quantity", value.n, "", <<>>, unit)

----------------------------------------------------------------------------
(* Transport: sendcmd / query / read over a recording double *)

\* terminator of a freshly opened instrument
DefaultTerminator == "\n"

Props == {"mode", "oformat", "mformat", "tarm_mode", "trigger_mode", "azero", "display"}

\* the command keyword of each enum_property
Command(p) ==
    CASE p = "mode" -> <<"F", "U", "N", "C">>
      [] p = "oformat" -> <<"O", "F", "O", "R", "M", "A", "T">>
      [] p = "mformat" -> <<"M", "F", "O", "R", "M", "A", "T">>
      [] p = "tarm_mode" -> <<"T", "A", "R", "M">>
      [] p = "trigger_mode" -> <<"T", "R", "I", "G">>
      [] p = "azero" -> <<"A", "Z", "E", "R", "O">>
      [] p = "display" -> <<"D", "I", "S", "P">>

\* the enumeration of each enum_property
PropEnum(p) ==
    CASE p = "mode" -> "Mode"
      [] p \in {"oformat", "mformat"} -> "Format"
      [] p \in {"tarm_mode", "trigger_mode"} -> "TriggerMode"
      [] p \in {"azero", "display"} -> "ToggableMode"

\* One transport event. A write carries its text and the terminator appended to
\* it; a read carries the size and encoding asked for and the value returned.
Event(op, text, term, size, enc, val) ==
    [op |-> op, text |-> text, term |-> term, size |-> size, enc |-> enc, val |-> val]
WriteEv(text, term) == Event("write", text, term, 0, "", PyNone)
ReadEv(size, enc, val) == Event("read", <<>>, "", size, enc, val)

\* The world a call runs in and what it leaves behind:
\*   trace   events so far          dev     device registers
\*   set     variant last sent by each property's setter ("" when the last
\*           write to the keyword was not the setter's)
\*   term    the line terminator    err     the exception raised ("" for none)
\*   ret     the value returned
MkWorld(wtrace, wdev, wset, term, err, ret) ==
    [dev |-> wdev, trace |-> wtrace, term |-> term, err |-> err, ret |-> ret, set |-> wset]
World(tr, d, st, term) == MkWorld(tr, d, st, term, "", PyNone)
Raise(w, e) == [w EXCEPT !.err = e, !.ret = PyNone]
Return(w, v) == [w EXCEPT !.ret = v]

\* The device keeps the argument of the last "<KEYWORD> <argument>" written.
DevProps(text) ==
    LET kw == SplitHead(text, " ")
        arg == SplitRest(text, " ")
    IN  IF arg = <<>> THEN {} ELSE {p \in Props : Command(p) = kw}
DevWrite(d, ps, text) ==
    IF ps = {} THEN d
    ELSE LET arg == SplitRest(text, " ")
         IN  [p \in Props |-> IF p \in ps THEN arg ELSE d[p]]

Sendcmd(w, text) ==
    LET ps == DevProps(text)
    IN  [w EXCEPT !.trace = Append(@, WriteEv(text, w.term)),
                  !.dev = DevWrite(@, ps, text),
                  !.set = IF ps = {} THEN @
                          ELSE [p \in Props |-> IF p \in ps THEN "" ELSE @[p]]]

\* query: one write, then one line read as text; reply is what the device sent
Query(w, text, reply) ==
    Return([Sendcmd(w, text) EXCEPT
               !.trace = Append(@, ReadEv(-1, "utf-8", PyStr(reply)))],
           PyStr(reply))

\* Instrument.write: one write
Write(w, text) == Sendcmd(w, text)

\* HpmlMultimeter.read: passes size and encoding on to the transport
Read(w, size, enc, val) ==
    Return([w EXCEPT !.trace = Append(@, ReadEv(size, enc, val))], val)

----------------------------------------------------------------------------
(* Property accessor layer: enum_property *)

\* _mode_parse without the split on the comma
ModeParseOkWholeReply(val) == IntOk(val)

\* HpmlMultimeter._mode_parse
ModeParseOk(val) == IntOk(SplitHead(val, ","))
ModeParse(val) == PyInt(IntOf(SplitHead(val, ",")))

\* input_decoration of each property: _mode_parse for mode, int for the others
InDecorOk(p, val) == IF p = "mode" THEN ModeParseOk(val) ELSE IntOk(val)
InDecor(p, val) == IF p = "mode" THEN ModeParse(val) ELSE PyInt(IntOf(val))

\* getter: enum(input_decoration(query("<command>?")))
Getter(w, p, reply) ==
    LET q == Query(w, Command(p) \o <<"?">>, reply)
        v == InDecor(p, reply)
    IN  IF ~InDecorOk(p, reply) THEN Raise(q, "ValueError")
        ELSE IF ~EnumCallOk(PropEnum(p), v) THEN Raise(q, "ValueError")
        ELSE Return(q, EnumCall(PropEnum(p), v))

\* setter: sendcmd("<command> <enum(newval).value>")
Setter(w, p, newval) ==
    IF ~EnumCallOk(PropEnum(p), newval) THEN Raise(w, "ValueError")
    ELSE LET m == EnumCall(PropEnum(p), newval)
             s == Sendcmd(w, Command(p) \o <<" ">> \o Str(ValueOf(m)))
         IN  Return([s EXCEPT !.set[p] = m.name], PyNone)

----------------------------------------------------------------------------
(* Command methods of HpmlMultimeter *)

\* reset
Reset(w) == Sendcmd(w, <<"R", "E", "S", "E", "T">>)

\* clear
Clear(w) == Sendcmd(w, <<"C", "L", "E", "A", "R">>)

\* trigger that waits for an answer to its command
TriggerAndRead(w) == Query(w, <<"T", "R", "I", "G", " ", "1">>, <<>>)

\* trigger
Trigger(w) == Sendcmd(w, <<"T", "R", "I", "G", " ", "1">>)

\* name
Name(w, reply) == Query(w, <<"I", "D", "?">>, reply)

\* self_test_ok
SelfTestOk(w) ==
    Write(w, <<"I", "N", "P", "U", "T", " ", "B", "U", "F", ";", " ", "T", "E", "S", "T">>)

\* input_range and relative, getter and setter alike
NotImplemented(w) == Raise(w, "NotImplementedError")

\* size and encoding measure asks of read
MeasureReadSize == 8
MeasureReadEncoding == "IEEE-754/64"

\* measure that leaves the mode alone when the device is already in it
MeasureModeKeepsSameMode(w, mode, reply) ==
    IF mode = PyNone THEN Getter(w, "mode", reply)
    ELSE IF ~IsMember(mode) THEN Raise(w, "AttributeError")
    ELSE IF w.dev["mode"] = Str(ValueOf(mode)) THEN Return(w, mode)
    ELSE LET s == Setter(w, "mode", ValueOf(mode))
         IN  IF s.err # "" THEN s ELSE Return(s, mode)

\* measure, up to the isinstance check: the mode to measure in
MeasureMode(w, mode, reply) ==
    IF mode = PyNone THEN Getter(w, "mode", reply)
    ELSE IF ~IsMember(mode) THEN Raise(w, "AttributeError")
    ELSE LET s == Setter(w, "mode", ValueOf(mode))
         IN  IF s.err # "" THEN s ELSE Return(s, mode)

\* measure, from the isinstance check on
MeasureRead(w, mode, val) ==
    IF mode.t # "Mode" THEN Raise(w, "TypeError")
    ELSE LET r == Read(Trigger(w), MeasureReadSize, MeasureReadEncoding, val)
         IN  IF mode.name \notin DOMAIN UNITS THEN Raise(r, "KeyError")
             ELSE Return(r, Quantity(val, UNITS[mode.name]))

\* measure(mode): reply is the device's answer to FUNC? (asked only when mode
\* is None), val the value read returns
Measure(w, mode, reply, val) ==
    LET m == MeasureMode(w, mode, reply)
    IN  IF m.err # "" THEN m ELSE MeasureRead(m, m.ret, val)

----------------------------------------------------------------------------
(* HP3458a *)

\* __init__ arming the trigger before the formats are set
HP3458aInitSynFirst ==
    << <<"tarm_mode", Member("TriggerMode", "syn")>>,
       <<"mformat", Member("Format", "dreal")>>,
       <<"oformat", Member("Format", "dreal")>>,
       <<"display", Member("ToggableMode", "off")>>,
       <<"azero", Member("ToggableMode", "off")>>,
       <<"tarm_mode", Member("TriggerMode", "hold")>> >>

\* the property writes of __init__, in order
HP3458aInit ==
    << <<"tarm_mode", Member("TriggerMode", "hold")>>,
       <<"mformat", Member("Format", "dreal")>>,
       <<"oformat", Member("Format", "dreal")>>,
       <<"display", Member("ToggableMode", "off")>>,
       <<"azero", Member("ToggableMode", "off")>>,
       <<"tarm_mode", Member("TriggerMode", "syn")>> >>

\* the terminator __init__ sets last
HP3458aTerminator == "\r"

RECURSIVE SetAll(_, _)
SetAll(w, writes) ==
    IF writes = <<>> \/ w.err # "" THEN w
    ELSE SetAll(Setter(w, Head(writes)[1], Head(writes)[2]), Tail(writes))

\* HP3458a.__init__ after super().__init__
HP3458aConstruct(w) ==
    LET s == SetAll(w, HP3458aInit)
    IN  IF s.err # "" THEN s ELSE [s EXCEPT !.term = HP3458aTerminator]

----------------------------------------------------------------------------
(* The multimeter as a state machine: one action per operation *)

Call(op, prop, arg, err, ret) ==
    [op |-> op, err |-> err, ret |-> ret, arg |-> arg, prop |-> prop]
NoCall == Call("", "", PyNone, "", PyNone)
CallOf(op, p, arg, w) == Call(op, p, arg, w.err, w.ret)

\* the world a call on the constructed driver starts in: an empty trace
Start == World(<<>>, dev, lastSet, terminator)

\* what a call leaves behind
Finish(op, p, arg, w) ==
    /\ trace' = w.trace
    /\ dev' = w.dev
    /\ lastSet' = w.set
    /\ terminator' = w.term
    /\ call' = CallOf(op, p, arg, w)

\* replies the device may give that do not echo a register
FixedReplies ==
    { <<"6", ",", " ", "1", ".", "0", "E", "-", "4">>,
      <<"A", "U", "T", "O", ",", " ", "1">>,
      <<"1", "0">>,
      <<" ", "2">> }

\* replies to "<command>?": the register as written, the register followed by
\* a parameter, or one of the fixed replies
Replies(p) ==
    FixedReplies \cup
    (IF dev[p] = <<>> THEN {} ELSE {dev[p], dev[p] \o <<",", " ", "1">>})

\* values handed to a setter that are no member of the property's enumeration
OddArgs == {PyInt(1), Member("InputRange", "automatic")}

\* arguments of measure that are neither None nor a Mode
NonModes ==
    { Member("Format", "dreal"), Member("ToggableMode", "off"),
      Member("InputRange", "minimum"),
      PyStr(<<"6">>), PyInt(6) }

\* values read returns for a reading
Readings == {PyFloat(0), PyFloat(3)}

\* identification strings
Idents == { <<"H", "P", "3", "4", "5", "8", "A">> }

DrvInit ==
    /\ pc = "new"
    /\ cls = ""
    /\ terminator = DefaultTerminator
    /\ dev = [p \in Props |-> <<>>]
    /\ lastSet = [p \in Props |-> ""]
    /\ trace = <<>>
    /\ call = NoCall
    /\ ncalls = 0

\* HpmlMultimeter(filelike) / HP3458a(filelike)
Construct ==
    /\ pc = "new"
    /\ pc' = "ready"
    /\ ncalls' = 0
    /\ \E c \in {"HpmlMultimeter", "HP3458a"} :
          /\ cls' = c
          /\ Finish("__init__", "", PyNone,
                    IF c = "HP3458a" THEN HP3458aConstruct(Start) ELSE Start)
    /\ UNCHANGED enumVars

\* a call on the constructed driver
Ready ==
    /\ pc = "ready"
    /\ ncalls < MaxCalls
    /\ ncalls' = ncalls + 1
    /\ UNCHANGED <<pc, cls, enumVars>>

\* reading an enum_property
GetProp ==
    /\ Ready
    /\ \E p \in Props : \E reply \in Replies(p) :
          Finish("get", p, PyNone, Getter(Start, p, reply))

\* assigning to an enum_property
SetProp ==
    /\ Ready
    /\ \E p \in Props : \E newval \in Members(PropEnum(p)) \cup OddArgs :
          Finish("set", p, newval, Setter(Start, p, newval))

\* input_range and relative, read or assigned
Unsupported ==
    /\ Ready
    /\ \E op \in {"get", "set"} : \E p \in {"input_range", "relative"} :
          Finish(op, p, PyNone, NotImplemented(Start))

GetName ==
    /\ Ready
    /\ \E reply \in Idents : Finish("get", "name", PyNone, Name(Start, reply))

GetSelfTestOk == Ready /\ Finish("get", "self_test_ok", PyNone, SelfTestOk(Start))

DoReset == Ready /\ Finish("reset", "", PyNone, Reset(Start))

DoClear == Ready /\ Finish("clear", "", PyNone, Clear(Start))

DoTrigger == Ready /\ Finish("trigger", "", PyNone, Trigger(Start))

\* measure(mode) with an argument
MeasureArg ==
    /\ Ready
    /\ \E mode \in Members("Mode") \cup NonModes : \E val \in Readings :
          Finish("measure", "", mode, Measure(Start, mode, <<>>, val))

\* measure() in the current mode
MeasureNone ==
    /\ Ready
    /\ \E reply \in Replies("mode") : \E val \in Readings :
          Finish("measure", "", PyNone, Measure(Start, PyNone, reply, val))

----------------------------------------------------------------------------
(* HP6652a *)

\* float(s) for the replies of the model: digits, optionally followed by a
\* point and zeros (no other fraction and no exponent occurs in them);
\* anything else is a ValueError
FloatOk(s) ==
    LET t == Strip(s)
        whole == SplitHead(t, ".")
        frac == SplitRest(t, ".")
    IN  /\ whole # <<>>
        /\ \A i \in 1..Len(whole) : IsDigit(whole[i])
        /\ \A i \in 1..Len(frac) : frac[i] = "0"
FloatOf(s) == PyFloat(DigitsVal(SplitHead(Strip(s), ".")))

\* "{}".format(x) of a float magnitude with an integral value
FloatStr(x) == IntToStr(x.n) \o <<".", "0">>

\* the numeric properties: command keyword and unit
PsuCommand(p) ==
    CASE p = "voltage" -> <<"V", "O", "L", "T">>
      [] p = "current" -> <<"C", "U", "R", "R">>
      [] p = "voltage_sense" -> <<"M", "E", "A", "S", ":", "V", "O", "L", "T">>
      [] p = "current_sense" -> <<"M", "E", "A", "S", ":", "C", "U", "R", "R">>
      [] p = "overvoltage" -> <<"V", "O", "L", "T", ":", "P", "R", "O", "T">>
      [] p = "overcurrent" -> <<"C", "U", "R", "R", ":", "P", "R", "O", "T", ":", "S", "T", "A", "T">>
      [] p = "output" -> <<"O", "U", "T", "P">>
      [] p = "display_mode_text" -> <<"D", "I", "S", "P", ":", "M", "O", "D", "E">>
PsuUnit(p) == IF p \in {"voltage", "voltage_sense", "overvoltage"} THEN "volt" ELSE "amp"
PsuNumeric == {"voltage", "current", "voltage_sense", "current_sense", "overvoltage"}
PsuSettable == {"voltage", "current", "overvoltage"}
PsuToggles == {"overcurrent", "output"}

\* voltage, current, voltage_sense, current_sense, overvoltage getters
PsuGetNumeric(w, p, reply) ==
    LET q == Query(w, PsuCommand(p) \o <<"?">>, reply)
    IN  IF ~FloatOk(reply) THEN Raise(q, "ValueError")
        ELSE Return(q, Quantity(FloatOf(reply), PsuUnit(p)))

\* voltage, current, overvoltage setters; newval is a plain number, which
\* assume_units takes to be in the property's unit
PsuSetNumeric(w, p, newval) ==
    Sendcmd(w, PsuCommand(p) \o <<" ">> \o FloatStr(PyFloat(newval.n)))

\* x is '<literal>': true only of the very object of the literal. same tells
\* whether the runtime handed back that object for an equal string.
IsLiteral(x, literal, same) == x = literal /\ same

\* overcurrent and output getters
PsuGetToggle(w, p, reply, same) ==
    LET q == Query(w, PsuCommand(p) \o <<"?">>, reply)
    IN  Return(q, PyBool(IsLiteral(reply, <<"1">>, same)))

\* overcurrent and output setters
PsuSetToggle(w, p, newval) ==
    Sendcmd(w, PsuCommand(p) \o <<" ">> \o IntToStr(IF newval = PyBool(TRUE) THEN 1 ELSE 0))

\* display_mode_text getter
PsuGetDisplayMode(w, reply, same) ==
    LET q == Query(w, PsuCommand("display_mode_text") \o <<"?">>, reply)
    IN  Return(q, PyBool(IsLiteral(reply, <<"T", "E", "X", "T">>, same)))

\* display_mode_text setter
PsuSetDisplayMode(w, newval) ==
    Sendcmd(w, PsuCommand("display_mode_text") \o <<" ">> \o
               (IF newval = PyBool(TRUE) THEN <<"T", "E", "X", "T">> ELSE <<"N", "O", "R", "M">>))

\* HP6652a.reset
PsuReset(w) == Sendcmd(w, <<"O", "U", "T", "P", ":", "P", "R", "O", "T", ":", "C", "L", "E">>)

\* characters display_text truncates to
DisplayLimit == 15

\* str.upper(), one character at a time: the sharp s has no single uppercase
\* character and becomes "SS"
UpperChar(c) ==
    CASE c = "a" -> <<"A">>
      [] c = "b" -> <<"B">>
      [] c = "ß" -> <<"S", "S">>
      [] OTHER -> <<c>>
RECURSIVE Upper(_)
Upper(s) == IF s = <<>> THEN <<>> ELSE UpperChar(Head(s)) \o Upper(Tail(s))

\* text_to_display[:15] when longer than 15
Truncate(s) == IF Len(s) > DisplayLimit THEN SubSeq(s, 1, DisplayLimit) ELSE s

\* display_text
DisplayText(w, text) ==
    LET t == Upper(Truncate(text))
    IN  Return(Sendcmd(w, <<"D", "I", "S", "P", ":", "T", "E", "X", "T", " ", "\"">> \o t \o <<"\"">>), PyStr(t))

----------------------------------------------------------------------------
(* The power supply as a state machine *)

\* replies to the numeric queries
PsuNumReplies == { <<"1", "0", ".", "0">>, <<"5">>, <<" ", "7", ".", "0">>, <<"E", "R", "R">> }
\* replies to the toggle queries
PsuToggleReplies == { <<"1">>, <<"0">>, <<"O", "N">> }
\* replies to DISP:MODE?
PsuModeReplies == { <<"T", "E", "X", "T">>, <<"N", "O", "R", "M">> }
\* numbers assigned to the numeric properties
PsuNumbers == {PyInt(0), PyInt(12)}
\* values assigned to the toggles
PsuToggleArgs == {PyBool(TRUE), PyBool(FALSE), PyInt(1)}

\* texts handed to display_text: every length up to DisplayLimit + MaxExtra,
\* of one repeated character or cycling through the alphabet
Alphabet == <<"a", "B", "1", "ß">>
MaxText == DisplayLimit + MaxExtra
Texts ==
    {[i \in 1..n |-> Alphabet[k]] : n \in 0..MaxText, k \in 1..Len(Alphabet)} \cup
    {[i \in 1..n |-> Alphabet[((i + o) % Len(Alphabet)) + 1]] :
        n \in 0..MaxText, o \in 0..(Len(Alphabet) - 1)}

\* HP6652a(filelike): __init__ only calls the base class
PsuConstruct ==
    /\ pc = "new"
    /\ pc' = "psu"
    /\ cls' = "HP6652a"
    /\ Finish("__init__", "", PyNone, Start)
    /\ UNCHANGED <<ncalls, enumVars>>

\* a call on the constructed power supply
PsuReady ==
    /\ pc = "psu"
    /\ UNCHANGED <<pc, cls, ncalls, enumVars>>

PsuGetNumber ==
    /\ PsuReady
    /\ \E p \in PsuNumeric : \E reply \in PsuNumReplies :
           Finish("get", p, PyNone, PsuGetNumeric(Start, p, reply))

PsuSetNumber ==
    /\ PsuReady
    /\ \E p \in PsuSettable : \E newval \in PsuNumbers :
           Finish("set", p, newval, PsuSetNumeric(Start, p, newval))

PsuGetFlag ==
    /\ PsuReady
    /\ \E p \in PsuToggles : \E reply \in PsuToggleReplies : \E same \in BOOLEAN :
           Finish("get", p, PyNone, PsuGetToggle(Start, p, reply, same))

PsuSetFlag ==
    /\ PsuReady
    /\ \E p \in PsuToggles : \E newval \in PsuToggleArgs :
           Finish("set", p, newval, PsuSetToggle(Start, p, newval))

PsuGetMode ==
    /\ PsuReady
    /\ \E reply \in PsuModeReplies : \E same \in BOOLEAN :
           Finish("get", "display_mode_text", PyNone, PsuGetDisplayMode(Start, reply, same))

PsuSetMode ==
    /\ PsuReady
    /\ \E newval \in PsuToggleArgs :
           Finish("set", "display_mode_text", newval, PsuSetDisplayMode(Start, newval))

\* channel returns the instrument itself and touches no transport
PsuGetChannel ==
    /\ PsuReady
    /\ Finish("get", "channel", PyNone, Return(Start, PyVal("HP6652a", 0, "", <<>>, "")))

PsuDoReset ==
    /\ PsuReady
    /\ Finish("reset", "", PyNone, PsuReset(Start))

PsuDisplayText ==
    /\ PsuReady
    /\ \E text \in Texts :
           Finish("display_text", "", PyStr(text), DisplayText(Start, text))

----------------------------------------------------------------------------
(* The enumeration catalog, exercised variant by variant and code by code *)

EnumIn(op, e, p, x) == [e |-> e, x |-> x, p |-> p, op |-> op]
NoEnumIn == EnumIn("", "", "", PyNone)

\* wire codes of an enumeration's table
Codes(e) == {EnumTable(e)[i].value : i \in DOMAIN EnumTable(e)}
\* values that are the code of no variant of any table
OddCodes == {PyInt(99), PyStr(<<"O", "F", "F">>), PyInt(15)}

\* variant -> wire code -> variant
EncodeDecode ==
    /\ pc \in {"new", "catalog"}
    /\ pc' = "catalog"
    /\ UNCHANGED <<cls, drvVars>>
    /\ \E e \in EnumTypes : \E v \in Variants(e) :
          /\ enumIn' = EnumIn("encode_decode", e, "", v)
          /\ enumOut' = EnumCall(e, ValueOf(v))

\* wire code -> variant -> wire code; a code of no variant is a ValueError
DecodeEncode ==
    /\ pc \in {"new", "catalog"}
    /\ pc' = "catalog"
    /\ UNCHANGED <<cls, drvVars>>
    /\ \E e \in EnumTypes : \E c \in Codes(e) \cup OddCodes :
          /\ enumIn' = EnumIn("decode_encode", e, "", c)
          /\ enumOut' = IF EnumCallOk(e, c) THEN ValueOf(EnumCall(e, c))
                        ELSE PyVal("ValueError", 0, "", <<>>, "")

----------------------------------------------------------------------------
(* Specification *)

Init ==
    /\ DrvInit
    /\ enumIn = NoEnumIn
    /\ enumOut = PyNone

Next ==
    \/ Construct
    \/ GetProp
    \/ SetProp
    \/ Unsupported
    \/ GetName
    \/ GetSelfTestOk
    \/ DoReset
    \/ DoClear
    \/ DoTrigger
    \/ MeasureArg
    \/ MeasureNone
    \/ PsuConstruct
    \/ PsuGetNumber
    \/ PsuSetNumber
    \/ PsuGetFlag
    \/ PsuSetFlag
    \/ PsuGetMode
    \/ PsuSetMode
    \/ PsuGetChannel
    \/ PsuDoReset
    \/ PsuDisplayText
    \/ EncodeDecode
    \/ DecodeEncode

Spec == Init /\ [][Next]_vars

----------------------------------------------------------------------------
(* Properties *)

Writes(tr) == SelectSeq(tr, LAMBDA ev : ev.op = "write")
Reads(tr) == SelectSeq(tr, LAMBDA ev : ev.op = "read")
WriteTexts(tr) == [i \in 1..Len(Writes(tr)) |-> Writes(tr)[i].text]
\* no write follows a read
WritesFirst(tr) == \A i, j \in 1..Len(tr) : (tr[i].op = "read" /\ tr[j].op = "write") => j < i
\* one query: the command written, then one line read
OneQuery(tr, text) ==
    /\ Len(tr) = 2
    /\ tr[1].op = "write" /\ tr[1].text = text
    /\ tr[2].op = "read"
\* the text the device sent in reply to the call's first query
Reply == trace[2].val.s

MeasureCalled == pc = "ready" /\ call.op = "measure"
UnitLess == {"current_acdc", "voltage_acdc", "direct_sampling_ac", "direct_sampling_dc",
             "sub_sampling_ac", "sub_sampling_dc"}

\* C1 (as claimed; the code violates it): measure with an argument that is
\* neither None nor a Mode raises and has written nothing to the transport
\* when it raises.
C1_InvalidModeWritesNothing ==
    (MeasureCalled /\ call.arg # PyNone /\ call.arg.t # "Mode")
        => (call.err # "" /\ Writes(trace) = <<>>)

\* C2 (as claimed; the code violates it): measure(mode) for a Mode without a
\* unit completes without raising and returns the bare reading read from the
\* transport.
C2_UnitlessModeReturnsBareReading ==
    (MeasureCalled /\ call.arg.t = "Mode" /\ call.arg.name \in UnitLess)
        => /\ call.err = ""
           /\ Reads(trace) # <<>>
           /\ call.ret = Reads(trace)[Len(Reads(trace))].val

\* the unit the claim names for each mode
ClaimedUnit(name) ==
    CASE name \in {"voltage_dc", "voltage_ac"} -> "volt"
      [] name \in {"current_dc", "current_ac"} -> "amp"
      [] name \in {"resistance", "fourpt_resistance"} -> "ohm"
      [] name = "frequency" -> "hertz"
      [] name = "period" -> "second"
      [] OTHER -> ""

\* C3: measure(mode) for a Mode with a unit returns the reading read from the
\* transport, carrying that mode's unit: volt for voltage_dc / voltage_ac,
\* amp for current_dc / current_ac, ohm for resistance / fourpt_resistance,
\* hertz for frequency, second for period.
C3_MeasureCarriesUnit ==
    (MeasureCalled /\ call.arg.t = "Mode" /\ ClaimedUnit(call.arg.name) # "")
        => /\ call.err = ""
           /\ Len(Reads(trace)) = 1
           /\ call.ret = Quantity(Reads(trace)[1].val, ClaimedUnit(call.arg.name))

C3_Witness ==
    /\ MeasureCalled
    /\ call.arg = Member("Mode", "period")
    /\ call.ret = Quantity(PyFloat(3), "second")

\* C4 (as claimed; the code violates it): every property access and command
\* method, measure included, makes at most one write and at most one read,
\* the write first.
C4_OneWriteOneRead ==
    (pc \in {"ready", "psu"} /\ call.op # "__init__")
        => /\ Len(Writes(trace)) <= 1
           /\ Len(Reads(trace)) <= 1
           /\ WritesFirst(trace)

\* the operations of a transport event sequence
Ops(tr) == [i \in 1..Len(tr) |-> tr[i].op]
IsPrefix(a, b) == Len(a) <= Len(b) /\ a = SubSeq(b, 1, Len(a))

\* C4 (amended): every property access and command method other than measure
\* makes at most one write and at most one read, the write first. measure
\* with a mode makes at most two writes and then at most one read; measure
\* without a mode makes at most write, read, write, read in that order.
C4_OneWriteOneReadButMeasure ==
    (pc \in {"ready", "psu"} /\ call.op # "__init__")
        => IF call.op # "measure"
           THEN /\ Len(Writes(trace)) <= 1
                /\ Len(Reads(trace)) <= 1
                /\ WritesFirst(trace)
           ELSE IF call.arg # PyNone
           THEN IsPrefix(Ops(trace), <<"write", "write", "read">>)
           ELSE IsPrefix(Ops(trace), <<"write", "read", "write", "read">>)

C4_Witness ==
    /\ MeasureCalled
    /\ call.arg = PyNone
    /\ call.err = ""
    /\ Ops(trace) = <<"write", "read", "write", "read">>

\* C5: constructing an HP3458a writes TARM 4 (hold), MFORMAT 5 (dreal),
\* OFORMAT 5 (dreal), DISP 0 (off), AZERO 0 (off), TARM 5 (syn), in this
\* order and nothing else; none of the six is written with the carriage
\* return terminator, which is set after them; afterwards the trigger-arm
\* mode last written is syn and both formats written are dreal.
C5_InitSequence ==
    (call.op = "__init__" /\ cls = "HP3458a")
        => /\ call.err = ""
           /\ Reads(trace) = <<>>
           /\ WriteTexts(trace) =
                << <<"T", "A", "R", "M", " ", "4">>, <<"M", "F", "O", "R", "M", "A", "T", " ", "5">>, <<"O", "F", "O", "R", "M", "A", "T", " ", "5">>, <<"D", "I", "S", "P", " ", "0">>, <<"A", "Z", "E", "R", "O", " ", "0">>, <<"T", "A", "R", "M", " ", "5">> >>
           /\ \A i \in 1..Len(trace) : trace[i].term # "\r"
           /\ terminator = "\r"
           /\ dev["tarm_mode"] = <<"5">> /\ lastSet["tarm_mode"] = "syn"
           /\ dev["mformat"] = <<"5">> /\ lastSet["mformat"] = "dreal"
           /\ dev["oformat"] = <<"5">> /\ lastSet["oformat"] = "dreal"

C5_Witness == call.op = "__init__" /\ cls = "HP3458a" /\ Len(trace) = 6 /\ terminator = "\r"

\* C6 (as claimed; the code violates it): the output and overcurrent getters
\* make one query and return True exactly when the reply text is "1", False
\* when it is "0", whichever string object carries the reply.
C6_ToggleGetterByValue ==
    (pc = "psu" /\ call.op = "get" /\ call.prop \in {"output", "overcurrent"})
        => /\ OneQuery(trace, IF call.prop = "output" THEN <<"O", "U", "T", "P", "?">> ELSE <<"C", "U", "R", "R", ":", "P", "R", "O", "T", ":", "S", "T", "A", "T", "?">>)
           /\ (Reply = <<"1">> => call.ret = PyBool(TRUE))
           /\ (Reply = <<"0">> => call.ret = PyBool(FALSE))

\* C7 (as claimed; the code violates it): display_text sends one command
\* DISP:TEXT "s" and returns s, where s has at most 15 characters.
C7_DisplayTextAtMost15 ==
    (pc = "psu" /\ call.op = "display_text")
        => /\ Len(trace) = 1 /\ trace[1].op = "write"
           /\ trace[1].text = <<"D", "I", "S", "P", ":", "T", "E", "X", "T", " ", "\"">> \o call.ret.s \o <<"\"">>
           /\ Len(call.ret.s) <= 15

\* the string codes of the catalog
StringCodes == {c.s : c \in {x \in Codes("InputRange") : x.t = "str"}}

DistinctCodes ==
    \A e \in EnumTypes : \A i, j \in DOMAIN EnumTable(e) :
        i # j => EnumTable(e)[i].value # EnumTable(e)[j].value

\* C9: in each enumeration, encoding a variant and decoding the code gives the
\* variant back, decoding a code of the table and encoding the variant gives
\* the code back, and no two variants share a code; a property read back from
\* a device that answers with the argument the property's setter wrote is the
\* variant that was set.
C9_RoundTrip ==
    /\ enumIn.op = "encode_decode" => enumOut = enumIn.x
    /\ (enumIn.op = "decode_encode" /\ enumIn.x \in Codes(enumIn.e)) => enumOut = enumIn.x
    /\ DistinctCodes
    /\ (pc = "ready" /\ call.op = "set" /\ call.prop \in Props /\ call.err = ""
            /\ call.arg.t = PropEnum(call.prop))
          => lastSet[call.prop] = call.arg.name
    /\ (pc = "ready" /\ call.op = "get" /\ call.prop \in Props
            /\ lastSet[call.prop] # "" /\ Reply = dev[call.prop])
          => call.ret = Member(PropEnum(call.prop), lastSet[call.prop])

C9_Witness ==
    /\ pc = "ready" /\ call.op = "get" /\ call.prop = "trigger_mode"
    /\ lastSet["trigger_mode"] = "line" /\ Reply = dev["trigger_mode"]
    /\ call.ret = Member("TriggerMode", "line")

\* bytes per reading and decoding rule of each output format
FormatSize(name) ==
    CASE name = "sint" -> 2
      [] name = "dint" -> 4
      [] name = "sreal" -> 4
      [] name = "dreal" -> 8
      [] OTHER -> -1
FormatEncoding(name) ==
    CASE name = "ascii" -> "utf-8"
      [] name = "sint" -> "int16"
      [] name = "dint" -> "int32"
      [] name = "sreal" -> "IEEE-754/32"
      [] name = "dreal" -> "IEEE-754/64"
      [] OTHER -> ""

\* C10 (as claimed; the code violates it): measure reads its reading with the
\* byte width and decoding rule of the output format last configured on the
\* instrument.
C10_ReadFollowsOutputFormat ==
    (MeasureCalled /\ call.err = "" /\ lastSet["oformat"] # "")
        => LET rd == Reads(trace)[Len(Reads(trace))]
           IN  /\ rd.size = FormatSize(lastSet["oformat"])
               /\ rd.enc = FormatEncoding(lastSet["oformat"])

\* a call of measure that returned
MeasureReturned ==
    /\ pc' = "ready" /\ ncalls' = ncalls + 1
    /\ call'.op = "measure" /\ call'.err = ""

\* the positions in tr of the mode-switch writes, the trigger commands and
\* the reads of a reading
ModeSwitches(tr) ==
    {i \in 1..Len(tr) : tr[i].op = "write" /\ IsPrefix(<<"F", "U", "N", "C", " ">>, tr[i].text)}
Triggers(tr) ==
    {i \in 1..Len(tr) : tr[i].op = "write" /\ tr[i].text = <<"T", "R", "I", "G", " ", "1">>}
ReadingReads(tr) ==
    {i \in 1..Len(tr) : tr[i].op = "read" /\ tr[i].size = 8}

\* the transport events of a measure call with argument arg, in order
MeasureOrder(tr, arg) ==
    /\ IF arg # PyNone
       THEN /\ Len(tr) = 3
            /\ ModeSwitches(tr) = {1}
            /\ tr[1].text = <<"F", "U", "N", "C", " ">> \o Str(ValueOf(arg))
       ELSE /\ Len(tr) = 4
            /\ OneQuery(SubSeq(tr, 1, 2), <<"F", "U", "N", "C", "?">>)
            /\ ModeSwitches(tr) = {}
    /\ Triggers(tr) = {Len(tr) - 1}
    /\ ReadingReads(tr) = {Len(tr)}

\* C11: a measure call that returns talks to the transport in a fixed order.
\* With a mode argument the first event is the write FUNC <code of the mode>,
\* also when the device register already holds that code, and it is the only
\* mode-switch write; with no argument the call starts with one query FUNC?
\* (its write and the read of its reply) and writes no mode switch. Then
\* comes exactly one TRIG 1, then exactly one read of a reading, which is the
\* last event: no reading is read before the trigger and nothing is written
\* after the reading.
C11_MeasureOrder ==
    [][MeasureReturned => MeasureOrder(trace', call'.arg)]_vars

\* measure(period) returned with the device answering to FUNC 10
C11_Witness ==
    /\ MeasureCalled /\ call.err = "" /\ ncalls = 2
    /\ call.arg = Member("Mode", "period")
    /\ dev["mode"] = <<"1", "0">>
    /\ Ops(trace) = <<"write", "write", "read">>
    /\ trace[1].text = <<"F", "U", "N", "C", " ", "1", "0">>

====
